---- MODULE Spec2Model ----
(***************************************************************************)
(* State-machine model of todo_app.py: the task list kept by TodoApp, the  *)
(* tasks.json file behind it, and the handlers that change them.           *)
(*                                                                         *)
(* A task is a function from keys ("id", "task", "status", "done",         *)
(* "priority", and any extra key such as "note") to values; a key that a   *)
(* dict lacks is absent from the function's DOMAIN.  A text is a sequence  *)
(* of one-character strings, so that strip() and lower() are computed.     *)
(***************************************************************************)
EXTENDS Integers, Sequences, FiniteSets, TLC

VARIABLES tasks, _next_id, disk, filter_status, filter_priority, filter_search,
          tree, dashboard, alert, last, issued

\* tasks            self.tasks, the list of task dicts
\* _next_id         self._next_id, the id the next added task gets
\* disk             the content of tasks.json (DATA_FILE)
\* filter_status, filter_priority, filter_search
\*                  self.filter_status, self.filter_priority, self.filter_search
\* tree             the row ids of self.tree, in display order
\* dashboard        the numbers the dashboard labels show
\* alert            the message box the last handler showed, or "none"
\* last             the handler that ran last and how it ended
\* issued           history: the ids loaded at the first start or given out by
\*                  add_task since
vars == <<tasks, _next_id, disk, filter_status, filter_priority, filter_search,
          tree, dashboard, alert, last, issued>>

\* ---------------------------------------------------------------- bounds
MaxTasks == 2
MaxId == 3
MaxStat == 50

\* ---------------------------------------------------------------- values
\* Python's None, as returned by dict.get for a missing key and as the value
\* of an unset filter.
None == "<None>"

\* TaskStatus, and the set `valid` of set_status.
ValidStatus == {"pending", "in_progress", "done"}

\* The values of the priority combobox.
Priorities == {"low", "medium", "high"}

\* The characters texts are made of; " " is the only whitespace among them.
Whitespace == {" "}

\* ---------------------------------------------------------------- dicts
\* task.get(k, d)
Get(t, k, d) == IF k \in DOMAIN t THEN t[k] ELSE d

\* task[k] = v
Put(t, k, v) == [x \in (DOMAIN t) \cup {k} |-> IF x = k THEN v ELSE t[x]]

\* Python truthiness of a status value: None and "" are falsy.
Truthy(v) == v \notin {None, ""}

\* ---------------------------------------------------------------- strings
RECURSIVE LStrip(_)
LStrip(s) ==
    IF s # <<>> /\ Head(s) \in Whitespace THEN LStrip(Tail(s)) ELSE s

RECURSIVE RStrip(_)
RStrip(s) ==
    IF s # <<>> /\ s[Len(s)] \in Whitespace
    THEN RStrip(SubSeq(s, 1, Len(s) - 1))
    ELSE s

\* str.strip()
Strip(s) == RStrip(LStrip(s))

\* str.lower(), one character
LowerChar(c) == IF c = "A" THEN "a" ELSE IF c = "B" THEN "b" ELSE c

\* str.lower()
Lower(s) == [i \in 1..Len(s) |-> LowerChar(s[i])]

\* `needle in hay` for strings
Contains(hay, needle) ==
    \E i \in 0..(Len(hay) - Len(needle)) :
        SubSeq(hay, i + 1, i + Len(needle)) = needle

\* ---------------------------------------------------------------- file
\* json.dumps of one dict: its key/value pairs, in a fixed key order.
KeyOrder == <<"id", "task", "done", "status", "priority", "note">>

RECURSIVE DumpKeys(_, _)
DumpKeys(t, ks) ==
    IF ks = <<>> THEN <<>>
    ELSE IF Head(ks) \in DOMAIN t
         THEN <<<<Head(ks), t[Head(ks)]>>>> \o DumpKeys(t, Tail(ks))
         ELSE DumpKeys(t, Tail(ks))

DumpObject(t) == DumpKeys(t, KeyOrder)

\* json.loads of one object: the dict of its pairs.
LoadObject(o) ==
    [k \in {o[i][1] : i \in 1..Len(o)} |->
        o[CHOOSE i \in 1..Len(o) : o[i][1] = k /\
            \A j \in (i + 1)..Len(o) : o[j][1] # k][2] ]

\* json.dumps(tasks, ...): the text of the file, a list of objects.
JsonDumps(ts) == [kind |-> "list", items |-> [i \in 1..Len(ts) |-> DumpObject(ts[i])]]

\* The file: absent, or present with a content.
Absent == [kind |-> "absent"]
Garbage == [kind |-> "garbage"]
NotAList == [kind |-> "object"]

\* The keys of the Task schema; any other key of a task dict is an extra.
SchemaKeys == {"id", "task", "status", "done", "priority"}

\* A save that writes the keys of the Task schema only.
save_tasks_SchemaOnly(ts) ==
    JsonDumps([i \in 1..Len(ts) |->
                  [k \in (DOMAIN ts[i]) \cap SchemaKeys |-> ts[i][k]]])

\* save_tasks
save_tasks(ts) == JsonDumps(ts)

\* load_tasks: the list loaded and the warning shown, if any.
load_tasks(file) ==
    IF file.kind = "list"
    THEN [tasks |-> [i \in 1..Len(file.items) |-> LoadObject(file.items[i])],
          alert |-> "none"]
    ELSE IF file.kind = "garbage"
    THEN [tasks |-> <<>>, alert |-> "corrupted"]
    ELSE [tasks |-> <<>>, alert |-> "none"]

\* The search text lowered but with its blanks left on.
SearchLower_Untrimmed(search_text) == Lower(search_text)

\* ---------------------------------------------------------------- queries
\* search_text.lower().strip()
SearchLower(search_text) == Strip(Lower(search_text))

\* The loop body of filter_tasks: whether the task passes the three tests.
Matches(t, status_filter, priority_filter, search_lower) ==
    /\ ~(Truthy(status_filter) /\ Get(t, "status", None) # status_filter)
    /\ ~(Truthy(priority_filter) /\ Get(t, "priority", None) # priority_filter)
    /\ ~(search_lower # <<>> /\ ~Contains(Lower(Get(t, "task", <<>>)), search_lower))

\* The loop of filter_tasks: the tasks that pass, in order.
RECURSIVE FilterLoop(_, _, _, _)
FilterLoop(ts, status_filter, priority_filter, search_lower) ==
    IF ts = <<>> THEN <<>>
    ELSE (IF Matches(Head(ts), status_filter, priority_filter, search_lower)
          THEN <<Head(ts)>> ELSE <<>>)
         \o FilterLoop(Tail(ts), status_filter, priority_filter, search_lower)

filter_tasks(ts, status_filter, priority_filter, search_text) ==
    FilterLoop(ts, status_filter, priority_filter, SearchLower(search_text))

\* priority_order.get(t.get("priority", "medium"), 1)
PriorityRank(t) ==
    LET p == Get(t, "priority", "medium") IN
    IF p = "high" THEN 0 ELSE IF p = "low" THEN 2 ELSE 1

\* A sort key made of the id alone.
KeyLeq_IdOnly(a, b) == Get(a, "id", 0) <= Get(b, "id", 0)

\* The sort key of _refresh_list compared: key(a) <= key(b).
KeyLeq(a, b) ==
    \/ PriorityRank(a) < PriorityRank(b)
    \/ PriorityRank(a) = PriorityRank(b) /\ Get(a, "id", 0) <= Get(b, "id", 0)

\* Insert x after the last element whose key is <= x's (stable).
RECURSIVE InsertSorted(_, _)
InsertSorted(x, s) ==
    IF s = <<>> THEN <<x>>
    ELSE IF KeyLeq(s[Len(s)], x) THEN Append(s, x)
    ELSE Append(InsertSorted(x, SubSeq(s, 1, Len(s) - 1)), s[Len(s)])

\* sorted(filtered_tasks, key=...)
RECURSIVE SortTasks(_)
SortTasks(s) ==
    IF s = <<>> THEN <<>>
    ELSE InsertSorted(s[Len(s)], SortTasks(SubSeq(s, 1, Len(s) - 1)))

\* The tasks _refresh_list shows, in display order.
Displayed(ts, fs, fp, fq) == SortTasks(filter_tasks(ts, fs, fp, fq))

\* The loop body of _refresh_list: the done mirror of a shown task is set.
RefreshTask(t) == Put(t, "done", Get(t, "status", "pending") = "done")

\* self.tasks after _refresh_list: every shown task has its mirror set.
RefreshTasks(ts, fs, fp, fq) ==
    LET search_lower == SearchLower(fq) IN
    [i \in 1..Len(ts) |->
        IF Matches(ts[i], fs, fp, search_lower) THEN RefreshTask(ts[i]) ELSE ts[i]]

\* The row ids of the Treeview after _refresh_list.
TreeOf(ts, fs, fp, fq) ==
    LET shown == Displayed(ts, fs, fp, fq) IN
    [i \in 1..Len(shown) |-> shown[i]["id"]]

Range(s) == {s[i] : i \in 1..Len(s)}

Ids(ts) == {ts[i]["id"] : i \in 1..Len(ts)}

SetMax(S) == CHOOSE m \in S : \A x \in S : x <= m

\* ---------------------------------------------------------------- statistics
\* sum(1 for t in tasks if t.get("status") == status)
RECURSIVE CountStatus(_, _)
CountStatus(ts, status) ==
    IF ts = <<>> THEN 0
    ELSE (IF Get(Head(ts), "status", None) = status THEN 1 ELSE 0)
         + CountStatus(Tail(ts), status)

\* Binary floating point (IEEE 754 double): a positive value is
\* (1 + l1/Limb + l2/Limb^2 + l3/Limb^3 + l4/Limb^4) / 2^shift, its 52
\* fraction bits held as four 13-bit limbs <<l1, l2, l3, l4>>.
Limb == 8192

RECURSIVE Pow2(_)
Pow2(n) == IF n = 0 THEN 1 ELSE 2 * Pow2(n - 1)

\* The least k with d * 2^k >= t, for 0 < d <= t.
RECURSIVE ShiftOf(_, _)
ShiftOf(d, t) == IF d >= t THEN 0 ELSE 1 + ShiftOf(2 * d, t)

\* Long division: the next `n` limbs of r / t, and the remainder left.
RECURSIVE DivLimbs(_, _, _)
DivLimbs(r, t, n) ==
    IF n = 0 THEN [limbs |-> <<>>, rem |-> r]
    ELSE LET rest == DivLimbs((r * Limb) % t, t, n - 1)
         IN [limbs |-> <<(r * Limb) \div t>> \o rest.limbs, rem |-> rest.rem]

\* limbs + 1 in the last place; `carry` tells that it ran over the top.
RECURSIVE IncLimbs(_)
IncLimbs(limbs) ==
    IF limbs = <<>> THEN [limbs |-> <<>>, carry |-> 1]
    ELSE LET n == Len(limbs)
         IN IF limbs[n] + 1 < Limb
            THEN [limbs |-> [limbs EXCEPT ![n] = limbs[n] + 1], carry |-> 0]
            ELSE LET up == IncLimbs(SubSeq(limbs, 1, n - 1))
                 IN [limbs |-> Append(up.limbs, 0), carry |-> up.carry]

\* done / total in floating point, for 0 <= done <= total and 0 < total: zero,
\* or the quotient rounded to 53 significant bits, ties to even.
FloatDiv(d, t) ==
    IF d = 0 THEN [zero |-> TRUE] ELSE
    LET k == ShiftOf(d, t)
        q == DivLimbs(d * Pow2(k) - t, t, 4)
        roundBit == 2 * q.rem >= t
        sticky == (2 * q.rem) % t # 0
        roundUp == roundBit /\ (sticky \/ q.limbs[4] % 2 = 1)
        up == IncLimbs(q.limbs)
    IN IF ~roundUp THEN [zero |-> FALSE, shift |-> k, limbs |-> q.limbs]
       ELSE IF up.carry = 0 THEN [zero |-> FALSE, shift |-> k, limbs |-> up.limbs]
       ELSE [zero |-> FALSE, shift |-> k - 1, limbs |-> <<0, 0, 0, 0>>]

\* limbs * 100, exactly: the fraction limbs and the carry into the integer
\* part.
RECURSIVE MulLimbs100(_)
MulLimbs100(limbs) ==
    IF limbs = <<>> THEN [limbs |-> <<>>, carry |-> 0]
    ELSE LET low == MulLimbs100(Tail(limbs))
             p == Head(limbs) * 100 + low.carry
         IN [limbs |-> <<p % Limb>> \o low.limbs, carry |-> p \div Limb]

\* int(x * 100) for the floating point value x: the product is rounded to
\* 53 significant bits, ties to even, and then truncated.
IntOfTimes100(x) ==
    IF x.zero THEN 0 ELSE
    LET prod == MulLimbs100(x.limbs)
        whole == 100 + prod.carry
        drop == IF whole >= 128 THEN 128 ELSE 64
        last4 == prod.limbs[4]
        kept == last4 \div drop
        lost == last4 % drop
        roundUp == 2 * lost > drop \/ (2 * lost = drop /\ kept % 2 = 1)
        carried == /\ roundUp
                   /\ (kept + 1) * drop = Limb
                   /\ IncLimbs(SubSeq(prod.limbs, 1, 3)).carry = 1
        rounded == IF carried THEN whole + 1 ELSE whole
    IN IF x.shift >= 0 THEN rounded \div Pow2(x.shift)
       ELSE rounded * Pow2(0 - x.shift)

\* calculate_stats
calculate_stats(ts) ==
    LET total == Len(ts)
        done == CountStatus(ts, "done")
    IN [total |-> total,
        pending |-> CountStatus(ts, "pending"),
        in_progress |-> CountStatus(ts, "in_progress"),
        done |-> done,
        completion_percent |->
            IF total > 0 THEN [float |-> FloatDiv(done, total)]
            ELSE [int |-> 0] ]

\* _update_dashboard: the numbers the five labels show.
_update_dashboard(ts) ==
    LET stats == calculate_stats(ts)
    IN [total |-> stats.total,
        pending |-> stats.pending,
        in_progress |-> stats.in_progress,
        done |-> stats.done,
        completion_pct |->
            IF "float" \in DOMAIN stats.completion_percent
            THEN IntOfTimes100(stats.completion_percent.float)
            ELSE 0]

\* A pass that derives the status but forgets the done mirror.
NormalizeTask_StatusOnly(t) ==
    LET withStatus ==
            IF ~Truthy(Get(t, "status", None))
            THEN Put(t, "status", IF Get(t, "done", FALSE) THEN "done" ELSE "pending")
            ELSE t
    IN IF "priority" \notin DOMAIN withStatus
       THEN Put(withStatus, "priority", "medium")
       ELSE withStatus

\* ---------------------------------------------------------------- store
\* One pass of the loop of _normalize_tasks over one task.
NormalizeTask(t) ==
    LET withStatus ==
            IF ~Truthy(Get(t, "status", None))
            THEN LET status == IF Get(t, "done", FALSE) THEN "done" ELSE "pending"
                 IN Put(Put(t, "status", status), "done", status = "done")
            ELSE t
    IN IF "priority" \notin DOMAIN withStatus
       THEN Put(withStatus, "priority", "medium")
       ELSE withStatus

\* The `updated` flag of _normalize_tasks.
NeedsUpdate(ts) ==
    \E i \in 1..Len(ts) :
        \/ ~Truthy(Get(ts[i], "status", None))
        \/ "priority" \notin DOMAIN ts[i]

\* self.tasks after _normalize_tasks.
NormalizeTasks(ts) == [i \in 1..Len(ts) |-> NormalizeTask(ts[i])]

\* The counter seeded from the number of tasks instead of the largest id.
SeedNextId_Count(ts) == Len(ts) + 1

\* max([t.get("id", 0) for t in self.tasks], default=0) + 1
SeedNextId(ts) ==
    IF ts = <<>> THEN 1
    ELSE SetMax({Get(ts[i], "id", 0) : i \in 1..Len(ts)}) + 1

\* A new task that ignores the combobox and takes the default priority.
NewTask_DefaultPriority(id, text, priority) ==
    [id |-> id, task |-> text, done |-> FALSE, status |-> "pending",
     priority |-> "medium"]

\* The task dict add_task appends.
NewTask(id, text, priority) ==
    [id |-> id, task |-> text, done |-> FALSE, status |-> "pending",
     priority |-> priority]

\* The entry's content taken as typed.
EntryText_Raw(raw) == raw

\* The entry's content with only its leading blanks removed.
EntryText_LeftOnly(raw) == LStrip(raw)

\* The text add_task keeps of the entry's content.
EntryText(raw) == Strip(raw)

\* set_status without its validity check.
IsValidStatus_Always(status) == TRUE

\* The loops without their selection test: every task is changed.
Selected_All(t, ids) == TRUE

\* `status not in valid` of set_status, negated.
IsValidStatus(status) == status \in ValidStatus

\* `task["id"] in ids` of set_status and toggle_selected.
Selected(t, ids) == t["id"] \in ids

\* set_status with the done mirror forgotten.
SetStatusTask_NoMirror(t, status) == Put(t, "status", status)

\* The loop body of set_status for a selected task.
SetStatusTask(t, status) == Put(Put(t, "status", status), "done", status = "done")

\* A two-state toggle that never passes through in_progress.
NextStatus_TwoState(current) == IF current = "done" THEN "pending" ELSE "done"

\* The status toggle_selected moves a task to.
NextStatus(current) ==
    IF current = "pending" THEN "in_progress"
    ELSE IF current = "in_progress" THEN "done"
    ELSE "pending"

\* The loop body of toggle_selected for a selected task.
ToggleTask(t) ==
    LET moved == Put(t, "status", NextStatus(Get(t, "status", "pending")))
    IN Put(moved, "done", moved["status"] = "done")

\* The comprehension with its test dropped: the first task goes, whatever
\* is selected.
Without_First(ts, ids) == IF ts = <<>> THEN <<>> ELSE Tail(ts)

\* [t for t in self.tasks if t["id"] not in ids]
RECURSIVE Without(_, _)
Without(ts, ids) ==
    IF ts = <<>> THEN <<>>
    ELSE (IF Head(ts)["id"] \in ids THEN <<>> ELSE <<Head(ts)>>)
         \o Without(Tail(ts), ids)

\* ---------------------------------------------------------------- inputs
\* What the user can have typed in the entry: nothing, blanks, a padded
\* text, a plain text.
EntryTexts == { <<>>, <<" ", " ">>, <<" ", "a", " ">>, <<"a">> }

\* The priorities the user picks in the combobox when adding.
EntryPriorities == {"medium", "high"}

\* What the filter widgets can show when _apply_filters runs: the status
\* choice, the priority choice and the search text.
FilterInputs ==
    { <<"all", "all", <<>>>>,
      <<"done", "high", <<"A", " ">>>> }

\* The statuses set_status can be called with: the buttons' three, and one
\* that is not a TaskStatus.
StatusArgs == ValidStatus \cup {"archived"}

\* Task dicts a tasks.json on disk can hold: legacy shapes (no status, no
\* priority), a stale done mirror with an extra key and an untrimmed text,
\* a status outside TaskStatus, and current shapes.
LegacyDone == [id |-> 1, task |-> <<"a">>, done |-> TRUE]
StaleMirror ==
    [id |-> 1, task |-> <<" ", "A">>, status |-> "pending", done |-> TRUE,
     priority |-> "low", note |-> "x"]
LegacyBare == [id |-> 2, task |-> <<"a">>]
OddStatus == [id |-> 2, task |-> <<"a">>, status |-> "archived", priority |-> "high"]
Current ==
    [id |-> 3, task |-> <<"a">>, status |-> "in_progress", done |-> FALSE,
     priority |-> "high"]

StoredTasks == {LegacyDone, StaleMirror, LegacyBare, OddStatus, Current}

\* The files the application can find at start: none, an unparseable one,
\* one whose JSON is not a list, and lists of up to two tasks with distinct
\* ids.
StoredFiles ==
    {Absent, Garbage, NotAList, JsonDumps(<<>>)}
    \cup {JsonDumps(<<t>>) : t \in StoredTasks}
    \cup {JsonDumps(<<StaleMirror, LegacyBare>>), JsonDumps(<<Current, LegacyDone>>)}

\* ---------------------------------------------------------------- handlers
\* The application's state as one record; a handler maps a state and its
\* inputs to the state it leaves.
Now ==
    [tasks |-> tasks, next_id |-> _next_id, disk |-> disk,
     filter_status |-> filter_status, filter_priority |-> filter_priority,
     filter_search |-> filter_search, tree |-> tree, alert |-> alert,
     last |-> last]

\* A handler that forgets to save: the file keeps its content.
Persist_Skipped(st, ts) == st.disk

\* The save_tasks(self.tasks) call a handler makes after changing the list.
Persist(st, ts) == save_tasks(ts)

\* _refresh_list on the list ts under the filters of st: the done mirrors of
\* the shown tasks are set and the Treeview is rebuilt.
_refresh_list(st, ts) ==
    [st EXCEPT
        !.tasks = RefreshTasks(ts, st.filter_status, st.filter_priority,
                               st.filter_search),
        !.tree = TreeOf(ts, st.filter_status, st.filter_priority,
                        st.filter_search)]

\* TodoApp.__init__ on the file `file`: load, seed the counter, normalize
\* (saving when a task changed), reset the filters, refresh.
__init__(file) ==
    LET loaded == load_tasks(file)
        normal == NormalizeTasks(loaded.tasks)
        built == [tasks |-> normal,
                  next_id |-> SeedNextId(loaded.tasks),
                  disk |-> IF NeedsUpdate(loaded.tasks)
                           THEN save_tasks(normal) ELSE file,
                  filter_status |-> None,
                  filter_priority |-> None,
                  filter_search |-> <<>>,
                  tree |-> <<>>,
                  alert |-> loaded.alert,
                  last |-> "init"]
    IN _refresh_list(built, normal)

\* add_task with `raw` in the entry and `priority` in the combobox.
add_task(st, raw, priority) ==
    LET text == EntryText(raw) IN
    IF text = <<>>
    THEN [st EXCEPT !.alert = "empty", !.last = "add_rejected"]
    ELSE LET appended == Append(st.tasks, NewTask(st.next_id, text, priority))
         IN _refresh_list(
                [st EXCEPT !.next_id = st.next_id + 1,
                           !.disk = Persist(st, appended),
                           !.alert = "none",
                           !.last = "add"],
                appended)

\* set_status(status) with the rows `ids` selected.
set_status(st, ids, status) ==
    IF ids = {}
    THEN [st EXCEPT !.alert = "none", !.last = "noop"]
    ELSE IF ~IsValidStatus(status)
    THEN [st EXCEPT !.alert = "none", !.last = "set_status_invalid"]
    ELSE LET changed == [i \in 1..Len(st.tasks) |->
                            IF Selected(st.tasks[i], ids)
                            THEN SetStatusTask(st.tasks[i], status)
                            ELSE st.tasks[i]]
         IN _refresh_list(
                [st EXCEPT !.disk = Persist(st, changed),
                           !.alert = "none",
                           !.last = "set_status"],
                changed)

\* toggle_selected with the rows `ids` selected.
toggle_selected(st, ids) ==
    IF ids = {}
    THEN [st EXCEPT !.alert = "none", !.last = "noop"]
    ELSE LET changed == [i \in 1..Len(st.tasks) |->
                            IF Selected(st.tasks[i], ids)
                            THEN ToggleTask(st.tasks[i])
                            ELSE st.tasks[i]]
         IN _refresh_list(
                [st EXCEPT !.disk = Persist(st, changed),
                           !.alert = "none",
                           !.last = "toggle"],
                changed)

\* remove_selected with the rows `ids` selected; `confirm` is the answer to
\* the confirmation dialog.
remove_selected(st, ids, confirm) ==
    IF ids = {} \/ ~confirm
    THEN [st EXCEPT !.alert = "none", !.last = "noop"]
    ELSE LET kept == Without(st.tasks, ids)
         IN _refresh_list(
                [st EXCEPT !.disk = Persist(st, kept),
                           !.alert = "none",
                           !.last = "remove"],
                kept)

\* _on_tree_click on the delete cell of row `task_id`; `confirm` is the
\* answer to the confirmation dialog.
_on_tree_click(st, task_id, confirm) ==
    IF ~confirm
    THEN [st EXCEPT !.alert = "none", !.last = "noop"]
    ELSE LET kept == Without(st.tasks, {task_id})
         IN _refresh_list(
                [st EXCEPT !.disk = Persist(st, kept),
                           !.alert = "none",
                           !.last = "remove"],
                kept)

\* _apply_filters with the filter widgets showing status_val, priority_val
\* and search_text.
_apply_filters(st, status_val, priority_val, search_text) ==
    _refresh_list(
        [st EXCEPT !.filter_search = search_text,
                   !.filter_status = IF status_val = "all" THEN None ELSE status_val,
                   !.filter_priority = IF priority_val = "all" THEN None ELSE priority_val,
                   !.alert = "none",
                   !.last = "noop"],
        st.tasks)

\* ---------------------------------------------------------------- machine
\* The step to the state r; `issued` gathers every id the list ever held.
\* The dashboard shows the numbers of the list the handler leaves: a handler
\* that changes the list ends in _refresh_list, which calls
\* _update_dashboard, and one that returns early leaves both as they were.
Apply(r) ==
    /\ tasks' = r.tasks
    /\ dashboard' = _update_dashboard(r.tasks)
    /\ _next_id' = r.next_id
    /\ disk' = r.disk
    /\ filter_status' = r.filter_status
    /\ filter_priority' = r.filter_priority
    /\ filter_search' = r.filter_search
    /\ tree' = r.tree
    /\ alert' = r.alert
    /\ last' = r.last
    /\ issued' = issued \cup Ids(r.tasks)

\* The state after construction on any of the stored files.
Init ==
    \E file \in StoredFiles :
        LET r == __init__(file)
        IN /\ tasks = r.tasks
           /\ dashboard = _update_dashboard(r.tasks)
           /\ _next_id = r.next_id
           /\ disk = r.disk
           /\ filter_status = r.filter_status
           /\ filter_priority = r.filter_priority
           /\ filter_search = r.filter_search
           /\ tree = r.tree
           /\ alert = r.alert
           /\ last = r.last
           /\ issued = Ids(r.tasks)

\* The application is closed and started again on the file it left.
Restart == Apply(__init__(disk))

\* The user adds a task; the list and the counter are kept within bounds.
AddTask(raw, priority) ==
    /\ EntryText(raw) # <<>> => (Len(tasks) < MaxTasks /\ _next_id <= MaxId)
    /\ Apply(add_task(Now, raw, priority))

\* The user presses a status button with the rows `ids` selected; only
\* rows of the Treeview can be selected.
SetStatus(ids, status) ==
    /\ ids \subseteq Range(tree)
    /\ Apply(set_status(Now, ids, status))

\* The user double-clicks with the rows `ids` selected.
ToggleSelected(ids) ==
    /\ ids \subseteq Range(tree)
    /\ Apply(toggle_selected(Now, ids))

\* The user presses Remover with the rows `ids` selected.
RemoveSelected(ids, confirm) ==
    /\ ids \subseteq Range(tree)
    /\ Apply(remove_selected(Now, ids, confirm))

\* The user clicks the delete cell of a row.
OnTreeClick(task_id, confirm) ==
    /\ task_id \in Range(tree)
    /\ Apply(_on_tree_click(Now, task_id, confirm))

\* The user changes a filter widget.
ApplyFilters(status_val, priority_val, search_text) ==
    Apply(_apply_filters(Now, status_val, priority_val, search_text))

AllIds == 1..MaxId

Next ==
    \/ Restart
    \/ \E raw \in EntryTexts, priority \in EntryPriorities : AddTask(raw, priority)
    \/ \E ids \in SUBSET AllIds, status \in StatusArgs : SetStatus(ids, status)
    \/ \E ids \in SUBSET AllIds : ToggleSelected(ids)
    \/ \E ids \in SUBSET AllIds, confirm \in BOOLEAN : RemoveSelected(ids, confirm)
    \/ \E task_id \in AllIds, confirm \in BOOLEAN : OnTreeClick(task_id, confirm)
    \/ \E f \in FilterInputs : ApplyFilters(f[1], f[2], f[3])

Spec == Init /\ [][Next]_vars

\* One session: the application is started once and not restarted.
NextSession ==
    \/ \E raw \in EntryTexts, priority \in EntryPriorities : AddTask(raw, priority)
    \/ \E ids \in SUBSET AllIds, status \in StatusArgs : SetStatus(ids, status)
    \/ \E ids \in SUBSET AllIds : ToggleSelected(ids)
    \/ \E ids \in SUBSET AllIds, confirm \in BOOLEAN : RemoveSelected(ids, confirm)
    \/ \E task_id \in AllIds, confirm \in BOOLEAN : OnTreeClick(task_id, confirm)
    \/ \E f \in FilterInputs : ApplyFilters(f[1], f[2], f[3])

SpecSession == Init /\ [][NextSession]_vars

\* ---------------------------------------------------------------- functions
\* The functions on lists of tasks taken by themselves: a list is given, and
\* _normalize_tasks, filter_tasks and the display sort are applied to it, one
\* after another, in any order.

\* Task dicts as a file can hold them, before an id is put on them: legacy
\* shapes (no status, no done, no priority), a stale done mirror with an extra
\* key, and a current shape.
RawShapes ==
    { [task |-> <<"a">>],
      [task |-> <<" ", "A">>, done |-> TRUE],
      [task |-> <<"b">>, status |-> "pending", done |-> TRUE,
       priority |-> "low", note |-> "x"],
      [task |-> <<"A", "b">>, status |-> "done", done |-> TRUE,
       priority |-> "high"] }

\* The lists of up to MaxId such dicts with distinct ids from 1..MaxId.
RawLists ==
    UNION { { [i \in 1..n |-> Put(c[i][1], "id", c[i][2])] :
                c \in { x \in [1..n -> RawShapes \X (1..MaxId)] :
                          \A i, j \in 1..n : i # j => x[i][2] # x[j][2] } } :
            n \in 0..MaxId }

\* The arguments filter_tasks is called with.
QueryStatuses == {None, "done", "pending"}
QueryPriorities == {None, "high", "medium"}
QuerySearches == { <<>>, <<" ">>, <<" ", "A">>, <<"a", "B", " ">> }

\* The filters the list is narrowed by.
QueryInputs ==
    { <<None, "medium", <<" ", "A">>>>, <<"done", "high", <<"a", "B", " ">>>> }

\* A list is given, as load_tasks returns it from the file that holds it.
InitQuery ==
    \E ts \in RawLists :
        /\ tasks = ts
        /\ _next_id = SeedNextId(ts)
        /\ disk = JsonDumps(ts)
        /\ filter_status = None
        /\ filter_priority = None
        /\ filter_search = <<>>
        /\ tree = <<>>
        /\ dashboard = _update_dashboard(<<>>)
        /\ alert = "none"
        /\ last = "loaded"
        /\ issued = Ids(ts)

\* _normalize_tasks runs on the list, saving it when a task changed.
Normalize ==
    /\ tasks' = NormalizeTasks(tasks)
    /\ disk' = IF NeedsUpdate(tasks) THEN save_tasks(NormalizeTasks(tasks)) ELSE disk
    /\ last' = IF NeedsUpdate(tasks) THEN "normalize_saved" ELSE "normalize_clean"
    /\ UNCHANGED <<_next_id, filter_status, filter_priority, filter_search,
                   tree, dashboard, alert, issued>>

\* filter_tasks is applied to the list; the list it returns is the list in
\* hand from then on.
Filter(status_filter, priority_filter, search_text) ==
    /\ tasks' = filter_tasks(tasks, status_filter, priority_filter, search_text)
    /\ filter_status' = status_filter
    /\ filter_priority' = priority_filter
    /\ filter_search' = search_text
    /\ last' = "filter"
    /\ UNCHANGED <<_next_id, disk, tree, dashboard, alert, issued>>

\* The display sort is applied to the list; the sorted list is the list in
\* hand from then on.
Sort ==
    /\ tasks' = SortTasks(tasks)
    /\ last' = "sort"
    /\ UNCHANGED <<_next_id, disk, filter_status, filter_priority,
                   filter_search, tree, dashboard, alert, issued>>

NextQuery ==
    \/ Normalize
    \/ \E f \in QueryInputs : Filter(f[1], f[2], f[3])
    \/ Sort

SpecQuery == InitQuery /\ [][NextQuery]_vars

\* ---------------------------------------------------------------- dashboard
\* calculate_stats and the dashboard taken by themselves: a list is given
\* and the dashboard is brought up to date with it.

\* The list of n tasks of which the first d are done; the others are
\* pending, in progress or without a status, in turn.
StatList(n, d) ==
    [i \in 1..n |->
        IF i <= d THEN [id |-> i, task |-> <<"a">>, status |-> "done"]
        ELSE IF i % 3 = 0 THEN [id |-> i, task |-> <<"a">>]
        ELSE IF i % 3 = 1 THEN [id |-> i, task |-> <<"a">>, status |-> "pending"]
        ELSE [id |-> i, task |-> <<"a">>, status |-> "in_progress"]]

\* A list of up to MaxStat tasks, any number of them done, is given; the
\* dashboard still shows the zeros it is built with.
InitStats ==
    \E n \in 0..MaxStat : \E d \in 0..n :
        /\ tasks = StatList(n, d)
        /\ _next_id = n + 1
        /\ disk = Absent
        /\ filter_status = None
        /\ filter_priority = None
        /\ filter_search = <<>>
        /\ tree = <<>>
        /\ dashboard = [total |-> 0, pending |-> 0, in_progress |-> 0,
                        done |-> 0, completion_pct |-> 0]
        /\ alert = "none"
        /\ last = "loaded"
        /\ issued = 1..n

\* _update_dashboard runs on the list.
UpdateDashboard ==
    /\ dashboard' = _update_dashboard(tasks)
    /\ last' = "dashboard"
    /\ UNCHANGED <<tasks, _next_id, disk, filter_status, filter_priority,
                   filter_search, tree, alert, issued>>

NextStats == UpdateDashboard

SpecStats == InitStats /\ [][NextStats]_vars

\* ================================================================ claims
\* The handlers that change the list of tasks.
MutatingOps == {"add", "set_status", "toggle", "remove"}

\* done == (status == "done") for one task dict.
MirrorOk(t) ==
    /\ "done" \in DOMAIN t
    /\ "status" \in DOMAIN t
    /\ t["done"] = (t["status"] = "done")

\* C1: after any mutating call (add, set status, cycle status, remove) on a
\* list that was loaded and normalized, every task in memory has
\* done == (status == "done").
C1_DoneMirrorsStatus ==
    last \in MutatingOps => \A i \in 1..Len(tasks) : MirrorOk(tasks[i])

\* C1 witness: set_status ran under an active filter while a task loaded
\* with a stale mirror (the one carrying "note") and a task marked done are
\* in the list.
C1_Witness ==
    /\ last = "set_status"
    /\ \E i \in 1..Len(tasks) : "note" \in DOMAIN tasks[i]
    /\ \E i \in 1..Len(tasks) : tasks[i]["status"] = "done"
    /\ filter_status = "done"

\* C2: an id once given to a task is never given to a task created later,
\* whatever adds, removes and restarts happen in between: every task that
\* appears in the list in a step carries an id that was never issued before.
C2_IdsNeverReused ==
    [][ \A i \in 1..Len(tasks') :
            tasks'[i]["id"] \notin Ids(tasks) => tasks'[i]["id"] \notin issued ]_vars

PairwiseDistinctIds(ts) ==
    \A i, j \in 1..Len(ts) : i # j => ts[i]["id"] # ts[j]["id"]

\* C3: in one session every id loaded or assigned so far is below the
\* counter, each successful add gives the new task the counter's value (so an
\* id above all of them) and moves the counter up by one, nothing else moves
\* the counter, the ids in the list stay pairwise distinct, and an empty
\* store starts the counter at 1 (so the adds get 1, 2, 3 whatever is removed
\* in between).
C3_SessionIdsFresh ==
    /\ [](/\ \A id \in issued : id < _next_id
          /\ Ids(tasks) \subseteq issued
          /\ PairwiseDistinctIds(tasks)
          /\ (issued = {} => _next_id = 1))
    /\ [][ \/ /\ _next_id' = _next_id
              /\ issued' = issued
              /\ Ids(tasks') \subseteq Ids(tasks)
           \/ /\ _next_id' = _next_id + 1
              /\ Len(tasks') = Len(tasks) + 1
              /\ tasks'[Len(tasks')]["id"] = _next_id
              /\ \A id \in issued : id < tasks'[Len(tasks')]["id"]
              /\ issued' = issued \cup {_next_id} ]_vars

\* C3 witness: two tasks were added, task 1 was removed and the next add got
\* id 3: only 2 and 3 remain, and 1, 2, 3 are issued.
C3_Witness ==
    /\ last = "add"
    /\ Len(tasks) = 2
    /\ tasks[1]["id"] = 2 /\ tasks[1]["priority"] = "medium" /\ tasks[1]["task"] = <<"a">>
    /\ tasks[2]["id"] = 3
    /\ issued = {1, 2, 3}
    /\ _next_id = 4

\* The file holds exactly the list ts: it parses to a list equal to ts.
FileHolds(file, ts) == file.kind = "list" /\ load_tasks(file).tasks = ts

\* C4 as claimed: at every point where an operation has returned, load and
\* the display refresh included, the content of the file equals the list in
\* memory (no file at all counting as the empty list).
C4_FileEqualsMemoryAlways ==
    \/ FileHolds(disk, tasks)
    \/ disk = Absent /\ tasks = <<>>

\* Two task dicts agree on every key but the done mirror.
SameButDone(t, u) ==
    /\ (DOMAIN t) \ {"done"} = (DOMAIN u) \ {"done"}
    /\ \A k \in (DOMAIN t) \ {"done"} : t[k] = u[k]

\* C4 amended: every step that changes the list or the file leaves the file
\* equal to the list, and once they are equal every later step keeps them
\* equal; before that (after a start alone) a file that is not a list goes
\* with an empty list in memory and a file that is a list differs from the
\* list in memory in done mirrors at most.
C4_FileFollowsMutations ==
    /\ [][ (tasks' # tasks \/ disk' # disk) => FileHolds(disk', tasks') ]_vars
    /\ [][ FileHolds(disk, tasks) => FileHolds(disk', tasks') ]_vars
    /\ [](IF disk.kind = "list"
          THEN LET onFile == load_tasks(disk).tasks
               IN /\ Len(onFile) = Len(tasks)
                  /\ \A i \in 1..Len(tasks) : SameButDone(onFile[i], tasks[i])
          ELSE tasks = <<>>)

\* C4 witness: a task was added next to a loaded one (the task carrying
\* "note") under an active filter, and the file holds the two.
C4_Witness ==
    /\ last = "add"
    /\ Len(tasks) = 2
    /\ "note" \in DOMAIN tasks[1]
    /\ filter_status = "done"
    /\ FileHolds(disk, tasks)

\* A text made of whitespace only (the empty text included).
IsBlank(raw) == \A i \in 1..Len(raw) : raw[i] = " "

\* C5: add with an empty or whitespace-only text shows the validation
\* message and changes neither the list, the counter nor the file, in
\* whatever state it is called.
C5_BlankAddChangesNothing ==
    \A raw \in EntryTexts, priority \in EntryPriorities :
        IsBlank(raw) =>
            LET r == add_task(Now, raw, priority)
            IN /\ r.alert = "empty"
               /\ r.tasks = tasks
               /\ r.next_id = _next_id
               /\ r.disk = disk

\* C5 witness: a blank add was rejected on a list that holds tasks.
C5_Witness ==
    /\ last = "add_rejected"
    /\ alert = "empty"
    /\ Len(tasks) = 2

\* C6: add with a non-blank text appends exactly one task at the end, the
\* others unchanged and in place, with id = the counter, status pending,
\* done false and the requested priority; the counter moves up by one and
\* the file holds the resulting list.
C6_AddAppendsOne ==
    \A raw \in EntryTexts, priority \in EntryPriorities :
        ~IsBlank(raw) =>
            LET r == add_task(Now, raw, priority)
                n == Len(tasks) + 1
            IN /\ Len(r.tasks) = n
               /\ SubSeq(r.tasks, 1, Len(tasks)) = tasks
               /\ r.tasks[n]["id"] = _next_id
               /\ r.tasks[n]["status"] = "pending"
               /\ r.tasks[n]["done"] = FALSE
               /\ r.tasks[n]["priority"] = priority
               /\ r.next_id = _next_id + 1
               /\ FileHolds(r.disk, r.tasks)

\* C6 witness: a high-priority task was added after a loaded task.
C6_Witness ==
    /\ last = "add"
    /\ Len(tasks) = 2
    /\ "note" \in DOMAIN tasks[1]
    /\ tasks[2]["priority"] = "high"
    /\ tasks[2]["id"] = _next_id - 1

\* C7 as claimed: the text add stores is the text as given.
C7_StoredTextAsGiven ==
    \A raw \in EntryTexts, priority \in EntryPriorities :
        ~IsBlank(raw) =>
            LET r == add_task(Now, raw, priority)
            IN r.tasks[Len(r.tasks)]["task"] = raw

\* out is in with its leading and trailing whitespace removed.
IsTrimOf(out, in) ==
    /\ out # <<>>
    /\ out[1] # " "
    /\ out[Len(out)] # " "
    /\ \E i \in 0..(Len(in) - Len(out)) :
          /\ SubSeq(in, i + 1, i + Len(out)) = out
          /\ \A j \in 1..Len(in) : (j <= i \/ j > i + Len(out)) => in[j] = " "

\* C7 amended: the text add stores is the text given with its leading and
\* trailing whitespace removed.
C7_StoredTextTrimmed ==
    \A raw \in EntryTexts, priority \in EntryPriorities :
        ~IsBlank(raw) =>
            LET r == add_task(Now, raw, priority)
            IN /\ Len(r.tasks) = Len(tasks) + 1
               /\ IsTrimOf(r.tasks[Len(r.tasks)]["task"], raw)

\* C7 witness: a task was added and its stored text has no blank at either
\* end, while a padded text is among those the entry can hold.
C7_Witness ==
    /\ last = "add"
    /\ tasks[Len(tasks)]["task"] = <<"a">>
    /\ <<" ", "a", " ">> \in EntryTexts

\* C8: set status with a status that is not pending, in_progress or done
\* changes no task, writes nothing and shows no message, whatever is
\* selected.
C8_InvalidStatusNoOp ==
    \A ids \in SUBSET Range(tree),
       status \in StatusArgs \ {"pending", "in_progress", "done"} :
        LET r == set_status(Now, ids, status)
        IN /\ r.tasks = tasks
           /\ r.disk = disk
           /\ r.next_id = _next_id
           /\ r.alert = "none"

\* C8 witness: set status ran with an invalid status on a non-empty
\* selection.
C8_Witness ==
    /\ last = "set_status_invalid"
    /\ Len(tasks) = 2
    /\ alert = "none"

\* What set status and cycle status may change of the list: only the status
\* and done of the tasks whose id is in ids.
OnlyStatusOfSelectedChanged(before, after, ids) ==
    /\ Len(after) = Len(before)
    /\ \A i \in 1..Len(before) :
          /\ DOMAIN after[i] = DOMAIN before[i]
          /\ \A k \in (DOMAIN before[i]) \ {"status", "done"} :
                after[i][k] = before[i][k]
          /\ before[i]["id"] \notin ids => after[i] = before[i]

\* C9: set status with a valid status, and cycle status, change only the
\* status and done of the selected tasks; the other tasks, every id, text,
\* priority and extra key, and the list's length and order stay; after set
\* status every selected task has the status asked for.
C9_StatusChangesAreFramed ==
    \A ids \in SUBSET Range(tree) :
        /\ \A status \in {"pending", "in_progress", "done"} :
              LET r == set_status(Now, ids, status)
              IN /\ OnlyStatusOfSelectedChanged(tasks, r.tasks, ids)
                 /\ \A i \in 1..Len(tasks) :
                       tasks[i]["id"] \in ids => r.tasks[i]["status"] = status
        /\ OnlyStatusOfSelectedChanged(tasks, toggle_selected(Now, ids).tasks, ids)

\* C9 witness: set status marked one of two tasks done and left the other,
\* which carries an extra key, as it was.
C9_Witness ==
    /\ last = "set_status"
    /\ Len(tasks) = 2
    /\ "note" \in DOMAIN tasks[1] /\ tasks[1]["status"] = "pending"
    /\ tasks[2]["status"] = "done"

\* One step of the cycle pending -> in_progress -> done -> pending.
CycleStep(from, to) ==
    \/ from = "pending" /\ to = "in_progress"
    \/ from = "in_progress" /\ to = "done"
    \/ from = "done" /\ to = "pending"

\* C10: cycle status moves each selected task with a valid status one step
\* along pending -> in_progress -> done -> pending, and three cycles of the
\* same selection give every selected task with a valid status the status
\* (and the whole content) it started with.
C10_CycleAdvancesAndCloses ==
    \A ids \in SUBSET Range(tree) :
        LET once == toggle_selected(Now, ids)
            thrice == toggle_selected(toggle_selected(once, ids), ids)
        IN \A i \in 1..Len(tasks) :
              (tasks[i]["id"] \in ids /\ tasks[i]["status"] \in ValidStatus) =>
                  /\ CycleStep(tasks[i]["status"], once.tasks[i]["status"])
                  /\ thrice.tasks[i] = tasks[i]

\* C10 witness: a cycle left one task done and another in progress.
C10_Witness ==
    /\ last = "toggle"
    /\ Len(tasks) = 2
    /\ tasks[1]["status"] = "done" /\ tasks[1]["done"] = TRUE
    /\ tasks[2]["status"] = "in_progress"

\* The positions of the tasks of ts whose id is not in ids.
KeptPositions(ts, ids) == {i \in 1..Len(ts) : ts[i]["id"] \notin ids}

\* after is ts with exactly the tasks whose id is in ids taken out: the others
\* are there, unchanged and in their order.
IsRestOf(after, ts, ids) ==
    LET kept == KeptPositions(ts, ids) IN
    /\ Len(after) = Cardinality(kept)
    /\ \A i \in kept : after[Cardinality({j \in kept : j <= i})] = ts[i]

C12_UnusableFileSignalled ==
    last = "init" =>
        /\ disk.kind \in {"garbage", "object"} =>
              (alert = "corrupted" /\ tasks = <<>>)
        /\ disk = Absent => (alert = "none" /\ tasks = <<>>)

\* Every task of `before` that is still in `after` (by its id) carries there
\* each of its extra keys with the value it had.
ExtrasKept(before, after) ==
    \A i \in 1..Len(before), j \in 1..Len(after) :
        after[j]["id"] = before[i]["id"] =>
            \A k \in (DOMAIN before[i]) \ SchemaKeys :
                k \in DOMAIN after[j] /\ after[j][k] = before[i][k]

\* The tasks a file holds (none when it is not a list).
OnFile(file) == load_tasks(file).tasks

\* The states an operation on the current state can leave: an add, a set
\* status, a cycle, a remove by button or by delete cell, a filter change.
Outcomes ==
    {add_task(Now, raw, p) : raw \in EntryTexts, p \in EntryPriorities}
    \cup {set_status(Now, ids, s) : ids \in SUBSET Range(tree), s \in StatusArgs}
    \cup {toggle_selected(Now, ids) : ids \in SUBSET Range(tree)}
    \cup {remove_selected(Now, ids, c) : ids \in SUBSET Range(tree), c \in BOOLEAN}
    \cup {_on_tree_click(Now, id, c) : id \in Range(tree), c \in BOOLEAN}
    \cup {_apply_filters(Now, f[1], f[2], f[3]) : f \in FilterInputs}

\* C13: extra keys of a loaded task are kept as they are: what the file
\* holds and what is in memory agree on them, every operation keeps them in
\* memory and on the file for each task it does not remove, a start on the
\* file keeps them (through load and normalize), and saving the list and
\* loading it again gives the list back.
C13_ExtraKeysPreserved ==
    /\ ExtrasKept(tasks, OnFile(disk)) /\ ExtrasKept(OnFile(disk), tasks)
    /\ \A r \in Outcomes :
          /\ ExtrasKept(tasks, r.tasks)
          /\ ExtrasKept(r.tasks, OnFile(r.disk))
    /\ LET r == __init__(disk)
       IN /\ ExtrasKept(OnFile(disk), r.tasks)
          /\ ExtrasKept(r.tasks, OnFile(r.disk))
    /\ load_tasks(save_tasks(tasks)).tasks = tasks

\* C13 witness: a task loaded with the extra key "note" has been cycled to
\* done, another task was added after it, and the file holds both, the note
\* included.
C13_Witness ==
    /\ Len(tasks) = 2
    /\ "note" \in DOMAIN tasks[1] /\ tasks[1]["note"] = "x"
    /\ tasks[1]["status"] = "done"
    /\ tasks[2]["id"] = 3
    /\ FileHolds(disk, tasks)
    /\ OnFile(disk)[1]["note"] = "x"

\* C14: normalizing a list twice gives what normalizing it once gives: the
\* second pass changes no task and saves nothing.  The first pass gives each
\* task without a status the status done when its done is true and pending
\* otherwise, with done set to match, gives each task without a priority the
\* priority medium, and leaves everything else of every task as it was.
C14_NormalizeIdempotent ==
    LET once == NormalizeTasks(tasks) IN
    /\ NormalizeTasks(once) = once
    /\ ~NeedsUpdate(once)
    /\ Len(once) = Len(tasks)
    /\ \A i \in 1..Len(tasks) :
          LET t == tasks[i]
              n == once[i]
          IN /\ "status" \notin DOMAIN t =>
                   /\ n["status"] = (IF "done" \in DOMAIN t /\ t["done"] = TRUE
                                     THEN "done" ELSE "pending")
                   /\ "done" \in DOMAIN n
                   /\ n["done"] = (n["status"] = "done")
             /\ "priority" \notin DOMAIN t => n["priority"] = "medium"
             /\ \A k \in DOMAIN t :
                   ("status" \in DOMAIN t \/ k # "done") => n[k] = t[k]

\* C14 witness: a second pass has run over a list that the first pass had
\* changed and saved: the legacy task marked done has the status done and the
\* priority medium, the legacy task with nothing has pending, done false and
\* medium, and the file holds the list.
C14_Witness ==
    /\ last = "normalize_clean"
    /\ Len(tasks) = 2
    /\ tasks[1] = [id |-> 1, task |-> <<" ", "A">>, done |-> TRUE,
                   status |-> "done", priority |-> "medium"]
    /\ tasks[2] = [id |-> 2, task |-> <<"a">>, done |-> FALSE,
                   status |-> "pending", priority |-> "medium"]
    /\ FileHolds(disk, tasks)

\* Two characters that are the same letter, whatever their case.
SameLetter(a, b) ==
    \/ a = b
    \/ {a, b} \in {{"a", "A"}, {"b", "B"}}

\* needle occurs in text as a run of consecutive characters, case ignored.
OccursIgnoringCase(needle, text) ==
    \E off \in 0..(Len(text) - Len(needle)) :
        \A k \in 1..Len(needle) : SameLetter(text[off + k], needle[k])

\* The task meets every constraint that is active: the status filter and the
\* priority filter when set, the trimmed search text when it is not empty.
MeetsConstraints(t, statusFilter, priorityFilter, searchText) ==
    /\ statusFilter # None =>
          ("status" \in DOMAIN t /\ t["status"] = statusFilter)
    /\ priorityFilter # None =>
          ("priority" \in DOMAIN t /\ t["priority"] = priorityFilter)
    /\ Strip(searchText) # <<>> =>
          OccursIgnoringCase(Strip(searchText), t["task"])

\* out is the subsequence of ts at the positions pos, in the order of ts.
IsSubsequenceAt(out, ts, pos) ==
    /\ Len(out) = Cardinality(pos)
    /\ \A i \in pos : out[Cardinality({j \in pos : j <= i})] = ts[i]

\* C15: filter_tasks returns, in the order of the list, exactly the tasks
\* that meet all active constraints at once: status equal to the status
\* filter when set, priority equal to the priority filter when set, the
\* trimmed search text found in the task's text (untrimmed) with case
\* ignored when it is not empty; with no constraint it returns the list.
C15_FilterSelectsInOrder ==
    /\ \A statusFilter \in QueryStatuses, priorityFilter \in QueryPriorities,
          searchText \in QuerySearches :
          IsSubsequenceAt(
              filter_tasks(tasks, statusFilter, priorityFilter, searchText),
              tasks,
              {i \in 1..Len(tasks) :
                  MeetsConstraints(tasks[i], statusFilter, priorityFilter,
                                   searchText)})
    /\ filter_tasks(tasks, None, None, <<>>) = tasks

\* C15 witness: of three tasks given, the filter for done, high and the
\* search text "aB " has kept one, whose text is "Ab".
C15_Witness ==
    /\ last = "filter"
    /\ filter_status = "done" /\ filter_priority = "high"
    /\ filter_search = <<"a", "B", " ">>
    /\ issued = {1, 2, 3}
    /\ Len(tasks) = 1
    /\ tasks[1]["task"] = <<"A", "b">>

\* The rank of a priority in the display order.
RankOf(priority) ==
    CASE priority = "high" -> 0
      [] priority = "medium" -> 1
      [] priority = "low" -> 2

\* The priority a task counts with: its own, or medium when it has none.
PriorityOf(t) == IF "priority" \in DOMAIN t THEN t["priority"] ELSE "medium"

\* a comes before b in the display order: lower rank first, then lower id.
ComesBefore(a, b) ==
    \/ RankOf(PriorityOf(a)) < RankOf(PriorityOf(b))
    \/ RankOf(PriorityOf(a)) = RankOf(PriorityOf(b)) /\ a["id"] < b["id"]

\* s holds the same tasks as ts, each as many times.
IsPermutation(s, ts) ==
    /\ Len(s) = Len(ts)
    /\ \A t \in Range(s) \cup Range(ts) :
          Cardinality({i \in 1..Len(s) : s[i] = t})
              = Cardinality({i \in 1..Len(ts) : ts[i] = t})

\* The ids of a list, in its order.
IdsInOrder(ts) == [i \in 1..Len(ts) |-> ts[i]["id"]]

\* C16: the display sort gives a permutation of the list it is given; of any
\* two tasks with a priority among high, medium and low (a task without one
\* counting as medium), the one with the lower rank (high 0, medium 1,
\* low 2), or with the same rank and the lower id, stands first; the rows shown are the filtered list in that order; the
\* refresh leaves the list itself in its order; and tasks (low, 1),
\* (high, 2), (medium, 3) are displayed as 2, 3, 1.
C16_SortByPriorityThenId ==
    LET shown == SortTasks(tasks) IN
    /\ IsPermutation(shown, tasks)
    /\ \A i, j \in 1..Len(shown) :
          (/\ i < j
           /\ PriorityOf(shown[i]) \in Priorities
           /\ PriorityOf(shown[j]) \in Priorities)
              => ComesBefore(shown[i], shown[j])
    /\ TreeOf(tasks, None, None, <<>>) = IdsInOrder(shown)
    /\ IdsInOrder(_refresh_list(Now, tasks).tasks) = IdsInOrder(tasks)
    /\ (/\ IdsInOrder(tasks) = <<1, 2, 3>>
        /\ \A i \in 1..3 : "priority" \in DOMAIN tasks[i]
        /\ [i \in 1..3 |-> tasks[i]["priority"]] = <<"low", "high", "medium">>)
           => IdsInOrder(shown) = <<2, 3, 1>>

\* C16 witness: the list (low, 1), (high, 2), (medium, 3) has been sorted and
\* stands as 2, 3, 1.
C16_Witness ==
    /\ last = "sort"
    /\ IdsInOrder(tasks) = <<2, 3, 1>>
    /\ \A i \in 1..3 : "priority" \in DOMAIN tasks[i]
    /\ [i \in 1..3 |-> tasks[i]["priority"]] = <<"high", "medium", "low">>

\* The number of tasks of ts with the status `status`.
NumberWith(ts, status) ==
    Cardinality({i \in 1..Len(ts) :
                    "status" \in DOMAIN ts[i] /\ ts[i]["status"] = status})

\* C17: the dashboard shows the number of tasks as total, the number of
\* tasks with each status as pending, in progress and done, and as
\* completion percent 0 for an empty list and otherwise done * 100 / total
\* cut to an integer (33 for one task done of three).
C17_StatsAsStated ==
    last = "dashboard" =>
        /\ dashboard.total = Len(tasks)
        /\ dashboard.pending = NumberWith(tasks, "pending")
        /\ dashboard.in_progress = NumberWith(tasks, "in_progress")
        /\ dashboard.done = NumberWith(tasks, "done")
        /\ Len(tasks) = 0 => dashboard.completion_pct = 0
        /\ Len(tasks) > 0 =>
              dashboard.completion_pct
                  = (NumberWith(tasks, "done") * 100) \div Len(tasks)

====
